---- MODULE Spec2Model ----
(***************************************************************************)
(* Model of src/src/preprocess.py: the APOD preprocessing pipeline.        *)
(* main() fetches the APOD metadata, selects the asset URL, downloads the  *)
(* asset, computes the scaled dimensions in double-precision arithmetic,   *)
(* resizes the image and saves it as a baseline JPEG.                      *)
(***************************************************************************)
EXTENDS Integers, Sequences, FiniteSets, TLC

(***************************************************************************)
(* Bounds of the model.                                                    *)
(***************************************************************************)
\* Decoded images have every width and height in 1..MaxDim ...
MaxDim == 12
\* ... and a few larger sizes (wide, tall and extreme aspect ratios).
ExtraDims == {22, 77, 154, 200, 400, 1000}
Dims == (1..MaxDim) \cup ExtraDims

(***************************************************************************)
(* IEEE-754 binary64 arithmetic, as far as main() uses it: the quotient of *)
(* two positive ints (true division), the product of a float and a         *)
(* positive int, and int() of a positive float.  A float is a record       *)
(* [m, e] of value m * 2^e, where the significand m is a natural number of *)
(* at most Precision bits, written as a sequence of limbs in base Base,    *)
(* most significant first (the first limb may exceed Base).  Both          *)
(* operations round to nearest, ties to even.  The operands of main() are  *)
(* far from the overflow and subnormal ranges.                             *)
(***************************************************************************)
Precision == 53
LimbBits == 14
Base == 16384

\* F(v) with v evaluated once, whatever the number of times F uses it.
Eval(F(_), v) == CHOOSE y \in {F(x) : x \in {v}} : TRUE

RECURSIVE Pow2(_)
Pow2(k) == IF k = 0 THEN 1 ELSE 2 * Pow2(k - 1)

\* Number of binary digits of a natural number (0 has none).
RECURSIVE BitLenNat(_)
BitLenNat(n) == IF n = 0 THEN 0 ELSE 1 + BitLenNat(n \div 2)

\* Number of binary digits of the natural number the limbs p spell.
RECURSIVE BitLen(_)
BitLen(p) ==
    IF p = <<>> THEN 0
    ELSE IF p[1] = 0 THEN BitLen(Tail(p))
    ELSE LimbBits * (Len(p) - 1) + BitLenNat(p[1])

\* Binary digit j (0 = least significant) of p.
Bit(p, j) ==
    LET i == Len(p) - (j \div LimbBits)
    IN  IF i < 1 THEN 0 ELSE (p[i] \div Pow2(j % LimbBits)) % 2

\* floor(p / 2^s).
ShiftRight(p, s) ==
    LET w == s \div LimbBits
        t == s % LimbBits
    IN  IF w >= Len(p) THEN <<>>
        ELSE [i \in 1..(Len(p) - w) |->
                (p[i] \div Pow2(t))
                + (IF i = 1 THEN 0 ELSE (p[i - 1] % Pow2(t)) * Pow2(LimbBits - t))]

\* The natural number the first i limbs of p spell (for results that fit an
\* int).
RECURSIVE LimbsToNat(_, _)
LimbsToNat(p, i) ==
    IF i = 0 THEN 0 ELSE Base * LimbsToNat(p, i - 1) + p[i]

\* p + 1: one is added at limb i, the carry propagated toward the first limb
\* (which keeps it).
RECURSIVE Increment(_, _)
Increment(p, i) ==
    IF i = 1 \/ p[i] + 1 < Base THEN [p EXCEPT ![i] = @ + 1]
    ELSE Increment([p EXCEPT ![i] = 0], i - 1)

\* p * n: schoolbook multiplication from the last limb i down to the first
\* (which keeps the final carry), carry in hand.
RECURSIVE MulLimbs(_, _, _, _)
MulLimbs(p, i, n, carry) ==
    LET d == p[i] * n + carry
    IN  IF i = 1 THEN <<d>>
        ELSE Append(MulLimbs(p, i - 1, n, d \div Base), d % Base)

\* The next n limbs of r / b (r < b) appended to acc, and the remainder:
\* long division, LimbBits binary digits at a time.
RECURSIVE DivLimbs(_, _, _, _)
DivLimbs(r, b, n, acc) ==
    IF n = 0 THEN [limbs |-> acc, rem |-> r]
    ELSE DivLimbs((r * Base) % b, b, n - 1, Append(acc, (r * Base) \div b))

\* Rounding p to the nearest multiple of 2^s goes up: the digit below 2^s is
\* set and either something lies below it or the quotient q is odd.
RoundsUp(p, s, q, inexact) ==
    /\ Bit(p, s - 1) = 1
    /\ \/ inexact
       \/ \E j \in 0..(s - 2) : Bit(p, j) = 1
       \/ Bit(q, 0) = 1

\* The float q * 2^e, a significand of Precision + 1 digits (the carry of a
\* rounding) brought back to Precision.
Renormalise(q, e) ==
    IF BitLen(q) > Precision THEN [m |-> ShiftRight(q, 1), e |-> e + 1]
    ELSE [m |-> q, e |-> e]

\* The float nearest to p * 2^e (ties to even), where inexact says that the
\* exact value lies strictly between p * 2^e and (p + 1) * 2^e.
Round(p, e, inexact) ==
    Eval(LAMBDA s :
           IF s <= 0 THEN [m |-> p, e |-> e]
           ELSE Eval(LAMBDA q :
                       Eval(LAMBDA q1 : Renormalise(q1, e + s),
                            IF RoundsUp(p, s, q, inexact)
                            THEN Increment(q, Len(q)) ELSE q),
                     ShiftRight(p, s)),
         BitLen(p) - Precision)

\* Smallest k with a * 2^k >= b.
RECURSIVE NormShift(_, _)
NormShift(a, b) == IF a >= b THEN 0 ELSE 1 + NormShift(2 * a, b)

\* a / b for positive ints a, b below 2^17: the correctly rounded binary64
\* quotient.  The operands are scaled to b2 <= a2 < 2 * b2, the quotient is
\* developed to 11 + 4 * LimbBits binary digits and rounded to Precision.
FloatDiv(a, b) ==
    LET ka   == NormShift(a, b)
        kb   == IF a >= b THEN NormShift(2 * b, a + 1) ELSE 0
        a2   == a * Pow2(ka)
        b2   == b * Pow2(kb)
        top  == (a2 * 1024) \div b2
    IN  Eval(LAMBDA quot :
               Round(quot.limbs, kb - ka - 10 - 4 * LimbBits, quot.rem # 0),
             DivLimbs((a2 * 1024) % b2, b2, 4, <<top>>))

\* x * n for a float x and a positive int n (n is exact as a float): the
\* exact product rounded to Precision bits.
FloatMulInt(x, n) ==
    Eval(LAMBDA v :
           Eval(LAMBDA product : Round(product, v.e, FALSE),
                MulLimbs(v.m, Len(v.m), n, 0)),
         x)

\* int(x) for a positive float x: truncation toward zero.
FloatToInt(x) ==
    Eval(LAMBDA v :
           IF v.e >= 0 THEN LimbsToNat(v.m, Len(v.m)) * Pow2(v.e)
           ELSE Eval(LAMBDA q : LimbsToNat(q, Len(q)), ShiftRight(v.m, -v.e)),
         x)

(***************************************************************************)
(* The environment of one run: what the two servers may answer and what    *)
(* the output path may hold beforehand.                                    *)
(***************************************************************************)
\* Status codes of an HTTP response.
Statuses == {200, 404, 500}
\* A key missing from the JSON document.
Absent == "<absent>"
\* A body that is not JSON, and content that no image decoder accepts.
NotJson == [valid_json |-> FALSE]
NotImage == [decodable |-> FALSE]
\* The Python value None where an object, a string or an int is expected;
\* NoExit is the exit code of a process still running.
None == [none |-> TRUE]
NoneStr == "<None>"
NoneInt == -1
NoExit == -1
\* The output path holding no file.
\* No HTTP status: the call raised, or the operation is not a request.
NoStatus == 0
NoFile == [exists |-> FALSE]

MediaTypes == {"image", "video", "other", Absent}
Urls == {"X", "Y"}
\* JSON documents the APOD API may return.
Documents ==
    [media_type : MediaTypes, url : Urls \cup {Absent},
     thumbnail_url : Urls \cup {Absent}]
\* Images the asset server may return.
Images == [width : Dims, height : Dims]
\* Bodies that come with a status other than 200.
ErrorContents == {NotImage, [width |-> 4, height |-> 3]}
\* A file left at the output path by an earlier run.
OldFile ==
    [width |-> 320, height |-> 240, progressive |-> FALSE, run |-> "earlier"]

apod_api_url == "https://api.nasa.gov/planetary/apod"
output_path == "../image/apod.jpg"

VARIABLES
    pc,             \* the statement main() executes next
    exit_code,      \* NoExit while running, then the process exit code
    uncaught,       \* NoneStr, or the exception that ended the run
    response,       \* the latest requests.get result
    apod_api_json,
    apod_image_url,
    image,          \* the PIL image: None or [width, height]
    scaled_width,
    scaled_height,
    file,           \* what output_path holds
    log             \* the requests, parses and writes done so far

vars == <<pc, exit_code, uncaught, response, apod_api_json, apod_image_url,
          image, scaled_width, scaled_height, file, log>>

screen_width == 320
screen_height == 240

\* Min with the comparison turned around.
MinSwapped(a, b) == IF a > b THEN a ELSE b

Min(a, b) == IF a < b THEN a ELSE b

Init ==
    /\ pc = "get_metadata"
    /\ exit_code = NoExit
    /\ uncaught = NoneStr
    /\ response = None
    /\ apod_api_json = None
    /\ apod_image_url = NoneStr
    /\ image = None
    /\ scaled_width = NoneInt
    /\ scaled_height = NoneInt
    /\ file \in {NoFile, OldFile}
    /\ log = <<>>

\* sys.exit(1) after a diagnostic message.
Exit(code) ==
    /\ pc' = "exited"
    /\ exit_code' = code
    /\ uncaught' = NoneStr

\* An exception nobody catches: traceback, exit code 1.
Raise(exception) ==
    /\ pc' = "exited"
    /\ exit_code' = 1
    /\ uncaught' = exception

\* One more entry of the log: the operation, what it was applied to, and the
\* status code of the answer (NoStatus when there is none).
Logged(op, target, code) ==
    log' = Append(log, [op |-> op, target |-> target, code |-> code])

\* requests.get(apod_api_url) answers.
GetMetadata ==
    /\ pc = "get_metadata"
    /\ \E status \in Statuses, body \in Documents \cup {NotJson} :
          /\ response' = [status_code |-> status, content |-> body]
          /\ Logged("GET", apod_api_url, status)
    /\ pc' = "check_metadata"
    /\ UNCHANGED <<exit_code, uncaught, apod_api_json, apod_image_url, image,
                   scaled_width, scaled_height, file>>

\* requests.get(apod_api_url) raises (no connection).
GetMetadataError ==
    /\ pc = "get_metadata"
    /\ Logged("GET", apod_api_url, NoStatus)
    /\ Raise("ConnectionError")
    /\ UNCHANGED <<response, apod_api_json, apod_image_url, image,
                   scaled_width, scaled_height, file>>

\* The status check that only knows 404.
MetadataFailedOnly404(r) == r.status_code = 404

MetadataFailed(r) == r.status_code # 200

\* The failed metadata request tried again instead of sys.exit(1).
MetadataErrorRetry ==
    /\ pc = "check_metadata"
    /\ MetadataFailed(response)
    /\ pc' = "get_metadata"
    /\ UNCHANGED <<exit_code, uncaught, response, apod_api_json,
                   apod_image_url, image, scaled_width, scaled_height, file,
                   log>>

\* if response.status_code != 200: ... sys.exit(1)
MetadataError ==
    /\ pc = "check_metadata"
    /\ MetadataFailed(response)
    /\ Exit(1)
    /\ UNCHANGED <<response, apod_api_json, apod_image_url, image,
                   scaled_width, scaled_height, file, log>>

\* apod_api_json = response.json(); apod_image_url = None
ParseJson ==
    /\ pc = "check_metadata"
    /\ ~MetadataFailed(response)
    /\ IF response.content = NotJson
       THEN /\ Raise("JSONDecodeError")
            /\ UNCHANGED <<apod_api_json, apod_image_url>>
       ELSE /\ apod_api_json' = response.content
            /\ apod_image_url' = NoneStr
            /\ pc' = "select_url"
            /\ UNCHANGED <<exit_code, uncaught>>
    /\ Logged("json", "response", NoStatus)
    /\ UNCHANGED <<response, image, scaled_width, scaled_height, file>>

\* apod_api_json[key], a KeyError when the key is missing.
HasKey(json, key) == json[key] # Absent

\* if apod_api_json["media_type"] == "image": apod_image_url = ...["url"]
SelectImage ==
    /\ pc = "select_url"
    /\ HasKey(apod_api_json, "media_type")
    /\ apod_api_json["media_type"] = "image"
    /\ IF HasKey(apod_api_json, "url")
       THEN /\ apod_image_url' = apod_api_json["url"]
            /\ pc' = "get_image"
            /\ UNCHANGED <<exit_code, uncaught>>
       ELSE /\ Raise("KeyError")
            /\ UNCHANGED apod_image_url
    /\ UNCHANGED <<response, apod_api_json, image, scaled_width,
                   scaled_height, file, log>>

\* The video branch reading "url" like the image branch.
SelectVideoFromUrl ==
    /\ pc = "select_url"
    /\ HasKey(apod_api_json, "media_type")
    /\ apod_api_json["media_type"] = "video"
    /\ IF HasKey(apod_api_json, "url")
       THEN /\ apod_image_url' = apod_api_json["url"]
            /\ pc' = "get_image"
            /\ UNCHANGED <<exit_code, uncaught>>
       ELSE /\ Raise("KeyError")
            /\ UNCHANGED apod_image_url
    /\ UNCHANGED <<response, apod_api_json, image, scaled_width,
                   scaled_height, file, log>>

\* elif apod_api_json["media_type"] == "video": ... = ...["thumbnail_url"]
SelectVideo ==
    /\ pc = "select_url"
    /\ HasKey(apod_api_json, "media_type")
    /\ apod_api_json["media_type"] = "video"
    /\ IF HasKey(apod_api_json, "thumbnail_url")
       THEN /\ apod_image_url' = apod_api_json["thumbnail_url"]
            /\ pc' = "get_image"
            /\ UNCHANGED <<exit_code, uncaught>>
       ELSE /\ Raise("KeyError")
            /\ UNCHANGED apod_image_url
    /\ UNCHANGED <<response, apod_api_json, image, scaled_width,
                   scaled_height, file, log>>

\* The else branch falling back to "url" instead of sys.exit(1).
SelectOtherFallback ==
    /\ pc = "select_url"
    /\ HasKey(apod_api_json, "media_type")
    /\ apod_api_json["media_type"] \notin {"image", "video"}
    /\ IF HasKey(apod_api_json, "url")
       THEN /\ apod_image_url' = apod_api_json["url"]
            /\ pc' = "get_image"
            /\ UNCHANGED <<exit_code, uncaught>>
       ELSE /\ Exit(1)
            /\ UNCHANGED apod_image_url
    /\ UNCHANGED <<response, apod_api_json, image, scaled_width,
                   scaled_height, file, log>>

\* else: print(...); sys.exit(1)
SelectOther ==
    /\ pc = "select_url"
    /\ HasKey(apod_api_json, "media_type")
    /\ apod_api_json["media_type"] \notin {"image", "video"}
    /\ Exit(1)
    /\ UNCHANGED <<response, apod_api_json, apod_image_url, image,
                   scaled_width, scaled_height, file, log>>

\* apod_api_json["media_type"] raises KeyError.
SelectKeyError ==
    /\ pc = "select_url"
    /\ ~HasKey(apod_api_json, "media_type")
    /\ Raise("KeyError")
    /\ UNCHANGED <<response, apod_api_json, apod_image_url, image,
                   scaled_width, scaled_height, file, log>>

\* requests.get(apod_image_url) answers.
GetImage ==
    /\ pc = "get_image"
    /\ \E status \in Statuses :
       \E content \in IF status = 200 THEN Images \cup {NotImage}
                      ELSE ErrorContents :
          /\ response' = [status_code |-> status, content |-> content]
          /\ Logged("GET", apod_image_url, status)
    /\ pc' = "check_image"
    /\ UNCHANGED <<exit_code, uncaught, apod_api_json, apod_image_url, image,
                   scaled_width, scaled_height, file>>

\* requests.get(apod_image_url) raises.
GetImageError ==
    /\ pc = "get_image"
    /\ Logged("GET", apod_image_url, NoStatus)
    /\ Raise("ConnectionError")
    /\ UNCHANGED <<response, apod_api_json, apod_image_url, image,
                   scaled_width, scaled_height, file>>

\* The status check that only knows 404.
ImageFailedOnly404(r) == r.status_code = 404

ImageFailed(r) == r.status_code # 200

\* if response.status_code != 200: ... sys.exit(1)
ImageError ==
    /\ pc = "check_image"
    /\ ImageFailed(response)
    /\ Exit(1)
    /\ UNCHANGED <<response, apod_api_json, apod_image_url, image,
                   scaled_width, scaled_height, file, log>>

\* image = Image.open(io.BytesIO(response.content))
LoadImage ==
    /\ pc = "check_image"
    /\ ~ImageFailed(response)
    /\ IF response.content = NotImage
       THEN /\ Raise("UnidentifiedImageError")
            /\ UNCHANGED image
       ELSE /\ image' = response.content
            /\ pc' = "scale"
            /\ UNCHANGED <<exit_code, uncaught>>
    /\ UNCHANGED <<response, apod_api_json, apod_image_url, scaled_width,
                   scaled_height, file, log>>

\* int((scaled_width / image_width) * image_height)
LandscapeHeight(image_width, image_height) ==
    FloatToInt(FloatMulInt(FloatDiv(screen_width, image_width), image_height))

\* int((scaled_height / image_height) * image_width)
PortraitWidth(image_width, image_height) ==
    FloatToInt(FloatMulInt(FloatDiv(screen_height, image_height), image_width))

\* if image_width != image_height: if image_width > image_height: ...
ScaleLandscape ==
    /\ pc = "scale"
    /\ image.width # image.height
    /\ image.width > image.height
    /\ scaled_width' = screen_width
    /\ scaled_height' = LandscapeHeight(image.width, image.height)
    /\ pc' = "resize"
    /\ UNCHANGED <<exit_code, uncaught, response, apod_api_json,
                   apod_image_url, image, file, log>>

\* if image_width != image_height: ... else: ...
ScalePortrait ==
    /\ pc = "scale"
    /\ image.width # image.height
    /\ ~(image.width > image.height)
    /\ scaled_height' = screen_height
    /\ scaled_width' = PortraitWidth(image.width, image.height)
    /\ pc' = "resize"
    /\ UNCHANGED <<exit_code, uncaught, response, apod_api_json,
                   apod_image_url, image, file, log>>

\* else: scaled_width = scaled_height = min(screen_width, screen_height)
ScaleSquare ==
    /\ pc = "scale"
    /\ ~(image.width # image.height)
    /\ scaled_width' = Min(screen_width, screen_height)
    /\ scaled_height' = Min(screen_width, screen_height)
    /\ pc' = "resize"
    /\ UNCHANGED <<exit_code, uncaught, response, apod_api_json,
                   apod_image_url, image, file, log>>

\* image = image.resize((scaled_width, scaled_height), ...): Pillow raises
\* ValueError unless both are positive.
Resize ==
    /\ pc = "resize"
    /\ IF scaled_width > 0 /\ scaled_height > 0
       THEN /\ image' = [width |-> scaled_width, height |-> scaled_height]
            /\ pc' = "save"
            /\ UNCHANGED <<exit_code, uncaught>>
       ELSE /\ Raise("ValueError")
            /\ UNCHANGED image
    /\ UNCHANGED <<response, apod_api_json, apod_image_url, scaled_width,
                   scaled_height, file, log>>

\* image.save("../image/apod.jpg", "JPEG", progressive=False); main() returns.
Save ==
    /\ pc = "save"
    /\ file' = [width |-> image.width, height |-> image.height,
                progressive |-> FALSE, run |-> "this"]
    /\ Logged("save", output_path, NoStatus)
    /\ pc' = "exited"
    /\ exit_code' = 0
    /\ UNCHANGED <<uncaught, response, apod_api_json, apod_image_url, image,
                   scaled_width, scaled_height>>

Next ==
    \/ GetMetadata
    \/ GetMetadataError
    \/ MetadataError
    \/ ParseJson
    \/ SelectImage
    \/ SelectVideo
    \/ SelectOther
    \/ SelectKeyError
    \/ GetImage
    \/ GetImageError
    \/ ImageError
    \/ LoadImage
    \/ ScaleLandscape
    \/ ScalePortrait
    \/ ScaleSquare
    \/ Resize
    \/ Save

Spec == Init /\ [][Next]_vars

\* main() is the only thread and every call it makes returns or raises.
FairSpec == Spec /\ WF_vars(Next)

(***************************************************************************)
(* What the log and the state say about a run.                             *)
(***************************************************************************)
\* Positions of the log holding the metadata request, the asset requests,
\* the JSON parses and the file writes.
MetadataGets ==
    {i \in DOMAIN log : log[i].op = "GET" /\ log[i].target = apod_api_url}
ImageGets ==
    {i \in DOMAIN log : log[i].op = "GET" /\ log[i].target # apod_api_url}
JsonParses == {i \in DOMAIN log : log[i].op = "json"}
Saves == {i \in DOMAIN log : log[i].op = "save"}

\* The output path holds what it held before the run.
FileUntouched == file \in {NoFile, OldFile}

\* The decoded source bitmap, once the scaler has run on it.
Scaled == pc = "resize"
iw == image.width
ih == image.height

\* The statements of main() in program order.
Rank(label) ==
    CASE label = "get_metadata" -> 1
      [] label = "check_metadata" -> 2
      [] label = "select_url" -> 3
      [] label = "get_image" -> 4
      [] label = "check_image" -> 5
      [] label = "scale" -> 6
      [] label = "resize" -> 7
      [] label = "save" -> 8
      [] label = "exited" -> 9

(***************************************************************************)
(* The claims.                                                             *)
(***************************************************************************)

\* C1: for every decoded bitmap the computed target dimensions fit the
\* 320x240 box: scaled_width <= 320 and scaled_height <= 240, and both are
\* at most 240 when the bitmap is square.
C1_FitsBoundingBox ==
    Scaled =>
        /\ scaled_width <= 320
        /\ scaled_height <= 240
        /\ iw = ih => scaled_width <= 240 /\ scaled_height <= 240

\* C2: for every bitmap with iw > ih the computed width is 320 and the
\* computed height is floor(320 * ih / iw).
C2_LandscapeIsFloor ==
    Scaled /\ iw > ih =>
        /\ scaled_width = 320
        /\ scaled_height = (320 * ih) \div iw

\* C3: for every bitmap with ih > iw the computed height is 240 and the
\* computed width is floor(240 * iw / ih).
C3_PortraitIsFloor ==
    Scaled /\ ih > iw =>
        /\ scaled_height = 240
        /\ scaled_width = (240 * iw) \div ih

\* C4: for every square bitmap the computed dimensions are (240, 240),
\* whatever the source size, and so are those of the resized image.
C4_SquareIs240 ==
    /\ Scaled /\ iw = ih => scaled_width = 240 /\ scaled_height = 240
    /\ pc = "save" /\ response.content.width = response.content.height
          => image = [width |-> 240, height |-> 240]

\* C4 witness: a square 7x7 source was resized to 240x240.
C4_Witness ==
    /\ pc = "save"
    /\ response.content = [width |-> 7, height |-> 7]
    /\ image = [width |-> 240, height |-> 240]

\* C5: the URL of every asset request is the one media_type selects: the
\* "url" field for an image, the "thumbnail_url" field for a video.
C5_UrlByMediaType ==
    \A i \in ImageGets :
        /\ apod_api_json.media_type \in {"image", "video"}
        /\ apod_api_json.media_type = "image"
              => log[i].target = apod_api_json.url
        /\ apod_api_json.media_type = "video"
              => log[i].target = apod_api_json.thumbnail_url

\* C5 witness: a video with both fields present and different was fetched
\* from its thumbnail_url.
C5_Witness ==
    /\ ImageGets # {}
    /\ apod_api_json = [media_type |-> "video", url |-> "X",
                        thumbnail_url |-> "Y"]
    /\ \A i \in ImageGets : log[i].target = "Y"

\* C6: once a 200 metadata response is parsed and its media_type is neither
\* "image" nor "video", the run can only exit with code 1: no asset request
\* is issued and the output file is not written.
C6_OtherMediaTypeExits ==
    /\ JsonParses # {}
    /\ uncaught # "JSONDecodeError"
    /\ HasKey(apod_api_json, "media_type")
    /\ apod_api_json.media_type \notin {"image", "video"}
    => /\ pc \in {"select_url", "exited"}
       /\ pc = "exited" => exit_code = 1 /\ uncaught = NoneStr
       /\ ImageGets = {}
       /\ Saves = {}
       /\ FileUntouched

\* C6 witness: the run exited on media_type "other".
C6_Witness ==
    /\ pc = "exited"
    /\ exit_code = 1
    /\ JsonParses # {}
    /\ uncaught = NoneStr
    /\ apod_api_json.media_type = "other"

\* C7: when the metadata response has a status other than 200 the run can
\* only exit with code 1: the body is never parsed, no URL is selected, no
\* asset is requested and no file is written.
C7_MetadataErrorExits ==
    /\ MetadataGets # {}
    /\ \E i \in MetadataGets : log[i].code \notin {200, NoStatus}
    => /\ Len(log) = 1
       /\ pc \in {"check_metadata", "exited"}
       /\ pc = "exited" => exit_code = 1 /\ uncaught = NoneStr
       /\ apod_api_json = None
       /\ apod_image_url = NoneStr
       /\ FileUntouched

\* C7 witness: the run exited on a 404 metadata response whose body was a
\* well-formed image document.
C7_Witness ==
    /\ pc = "exited"
    /\ exit_code = 1
    /\ Len(log) = 1
    /\ log[1].code = 404
    /\ response = [status_code |-> 404,
                   content |-> [media_type |-> "image", url |-> "X",
                                thumbnail_url |-> Absent]]

\* C8: when the asset request answers with a status other than 200 the run
\* can only exit with code 1, and the output file is not written: the path
\* holds what it held before.
C8_ImageErrorExits ==
    (\E i \in ImageGets : log[i].code \notin {200, NoStatus})
    => /\ pc \in {"check_image", "exited"}
       /\ pc = "exited" => exit_code = 1 /\ uncaught = NoneStr
       /\ Saves = {}
       /\ FileUntouched

\* C8 witness: the run exited on a 500 asset response, an earlier output
\* file still in place.
C8_Witness ==
    /\ pc = "exited"
    /\ exit_code = 1
    /\ \E i \in ImageGets : log[i].code = 500
    /\ file = OldFile

\* The requests and writes of a run so far, in the order the pipeline allows.
Sequential ==
    /\ Cardinality(MetadataGets) = (IF pc = "get_metadata" THEN 0 ELSE 1)
    /\ Cardinality(ImageGets) <= 1
    /\ Cardinality(Saves) <= 1
    /\ \A i \in ImageGets :
          /\ \E j \in MetadataGets : j < i /\ log[j].code = 200
          /\ apod_api_json.media_type \in {"image", "video"}
    /\ \A i \in Saves : \E j \in ImageGets : j < i /\ log[j].code = 200

\* C9: the pipeline is strictly sequential: one metadata request, at most
\* one asset request and only after a 200 metadata response of media_type
\* image or video, at most one file write and only after a 200 asset
\* response; every step moves forward in program order, and every run
\* reaches its end.
C9_SequentialAndTerminates ==
    /\ []Sequential
    /\ [][Rank(pc') > Rank(pc)]_vars
    /\ <>(pc = "exited")

\* C9 witness: a complete run: metadata request, parse, asset request, write.
C9_Witness ==
    /\ pc = "exited"
    /\ exit_code = 0
    /\ Len(log) = 4
    /\ Cardinality(MetadataGets) = 1
    /\ Cardinality(ImageGets) = 1
    /\ Cardinality(Saves) = 1

\* C10: for every decoded bitmap both computed target dimensions are at
\* least 1 when the resize step is reached.
C10_DimensionsPositive ==
    Scaled => scaled_width >= 1 /\ scaled_height >= 1

====
